---- MODULE Spec2Model ----
(***************************************************************************)
(* Model of the ffmpeg binary resolver of FFmpeg-helper (src/ffmpeg.go):   *)
(* Ffmpeg() with its process-wide cache, GetFfmpegPath(), FetchFfmpeg()    *)
(* with its mirror loop, digest verification and chmod, run by several     *)
(* concurrent callers against one file system and one network.             *)
(*                                                                         *)
(* File-system semantics are POSIX: os.Create truncates an existing file   *)
(* and keeps its mode, os.Remove unlinks a file or an empty directory,     *)
(* exec.LookPath accepts a regular file with an execute bit without        *)
(* running it.                                                             *)
(***************************************************************************)
EXTENDS Integers, Sequences, FiniteSets, TLC

(* ----------------------------- bounds ---------------------------------- *)
\* number of goroutines that call Ffmpeg()
NCallers == 2
\* total number of Ffmpeg() calls started in one run
MaxCalls == 3
\* failures the environment injects in a run of one caller
\* (network errors, non-200 answers, corrupted bytes, file-system faults)
MaxFailures == 3
\* failures the environment injects in a run of several callers
MaxConcurrentFailures == 0

Callers == 1..NCallers

(* ------------------------- platform identifier ------------------------- *)
GOOS == "linux"
GOARCH == "amd64"

\* the architecture is appended as the runtime names it
getFfmpegVariant_Raw(os, arch) == os \o "_" \o arch

getFfmpegVariant(os, arch) ==
    LET a == CASE arch = "amd64"   -> "x86_64"
               [] arch = "386"     -> "i686"
               [] arch = "arm"     -> "armhf"
               [] arch = "arm64"   -> "aarch64"
               [] arch = "loong64" -> "loongarch64"
               [] OTHER            -> arch
    IN  os \o "_" \o a

getFfmpegName(variant, os) ==
    LET n1 == IF variant /= "" THEN "ffmpeg" \o "_" \o variant ELSE "ffmpeg"
    IN  IF os = "windows" THEN n1 \o ".exe" ELSE n1

(* ------------------------------ file system ---------------------------- *)
Oct(a, b, c) == a * 64 + b * 8 + c

RECURSIVE BitOr(_, _)
BitOr(x, y) ==
    IF x = 0 THEN y
    ELSE IF y = 0 THEN x
    ELSE (IF (x % 2 = 1) \/ (y % 2 = 1) THEN 1 ELSE 0) + 2 * BitOr(x \div 2, y \div 2)

RECURSIVE BitAnd(_, _)
BitAnd(x, y) ==
    IF x = 0 \/ y = 0 THEN 0
    ELSE (IF (x % 2 = 1) /\ (y % 2 = 1) THEN 1 ELSE 0) + 2 * BitAnd(x \div 2, y \div 2)

\* u+x, g+x, o+x
ExecBits == Oct(1, 1, 1)
\* os.Create opens with 0666 and the process umask (022) clears the rest
NewFileMode == Oct(6, 4, 4)

UserBinDir == "~/.local/bin"
SysDir == "/usr/bin"
Join(dir, name) == dir \o "/" \o name
UserBinPath == Join(UserBinDir, getFfmpegName("", GOOS))
SysPath == Join(SysDir, getFfmpegName("", GOOS))
Paths == {UserBinPath, SysPath}
\* what a reader of ffmpegPath can get while the first store to it is in flight:
\* the length word of the new string with the data word of the old one
TornPath == "<torn>"

NoFile == [exists |-> FALSE, isDir |-> FALSE, content |-> "", mode |-> 0]
RegFile(content, mode) ==
    [exists |-> TRUE, isDir |-> FALSE, content |-> content, mode |-> mode]
DirEntry == [exists |-> TRUE, isDir |-> TRUE, content |-> "", mode |-> Oct(7, 5, 5)]

(* ------------------------------ digests -------------------------------- *)
\* hex.EncodeToString(sha256(content)): one distinct lower-case hex string per content
Sha256Hex(content) ==
    CASE content = "rel"  -> <<"a", "1", "f", "0", "9", "c", "4", "d">>
      [] content = "bad"  -> <<"b", "2", "e", "9", "9", "c", "4", "d">>
      [] content = "part" -> <<"c", "3", "d", "8", "0", "0", "7", "e">>
      [] OTHER            -> <<"e", "3", "b", "0", "c", "4", "4", "2">>

Fold(ch) ==
    CASE ch = "A" -> "a" [] ch = "B" -> "b" [] ch = "C" -> "c"
      [] ch = "D" -> "d" [] ch = "E" -> "e" [] ch = "F" -> "f"
      [] OTHER -> ch

EqualFold(s, t) ==
    /\ Len(s) = Len(t)
    /\ \A k \in 1..Len(s) : Fold(s[k]) = Fold(t[k])

Upper(ch) ==
    CASE ch = "a" -> "A" [] ch = "b" -> "B" [] ch = "c" -> "C"
      [] ch = "d" -> "D" [] ch = "e" -> "E" [] ch = "f" -> "F"
      [] OTHER -> ch

Sha256Prefix == <<"s", "h", "a", "2", "5", "6", ":">>
\* the byte offset FetchFfmpeg slices the digest at
DigestOffset == 7

(* --------------------------- release manifest -------------------------- *)
\* the bytes of the release binary for this platform
RelHex == Sha256Hex("rel")
assetType(name, digest) ==
    [Name |-> name, Digest |-> digest, BrowserDownloadUrl |-> "/releases/" \o name]
vName == getFfmpegName(getFfmpegVariant(GOOS, GOARCH), GOOS)
OtherAsset ==
    assetType(getFfmpegName(getFfmpegVariant("windows", "arm64"), "windows"),
              Sha256Prefix \o Sha256Hex("bad"))
\* the digests a release manifest may carry for the matching asset
Digests ==
    { Sha256Prefix \o RelHex,                                  \* as published
      Sha256Prefix \o [k \in 1..Len(RelHex) |-> Upper(RelHex[k])], \* upper-case hex
      RelHex,                                                  \* prefix missing
      <<"s", "h", "a">>,                                       \* shorter than the prefix
      <<>> }                                                   \* absent
Manifests ==
    { <<OtherAsset, assetType(vName, d)>> : d \in Digests } \cup { <<OtherAsset>> }

NoAsset == [Name |-> "", Digest |-> <<>>, BrowserDownloadUrl |-> ""]

RECURSIVE FirstMatch(_, _, _)
FirstMatch(assets, name, k) ==
    IF k > Len(assets) THEN NoAsset
    ELSE IF assets[k].Name = name THEN assets[k]
    ELSE FirstMatch(assets, name, k + 1)

\* the first asset of the manifest, whatever its name
fetchRelease_First(assets) == assets[1]

\* fetchRelease on a decoded manifest: the first asset named vName, or nil
fetchRelease(assets) == FirstMatch(assets, vName, 1)

\* the mirror prefixes, tried in this order
Proxies == <<"https://ghfast.top/", "https://gh-proxy.com/", "">>

(* ------------------------------- state --------------------------------- *)
VARIABLES
    env,              \* the host: PATH, whether the release binary runs here, the
                      \* manifest, the number of callers, the failures to come,
                      \* whether it started without any ffmpeg file
    fs,               \* the file at each path
    ffmpegPath,       \* the process-wide cached path
    fetchFfmpegLock,  \* 0 when free, else the caller holding it
    crashed,          \* the process died of an unrecovered panic
    failures,         \* failures the environment has injected so far
    pc,               \* each caller's position
    path,             \* Ffmpeg: the local path a locator scan returned
    ret,              \* the result of each caller's last Ffmpeg() call
    i,                \* FetchFfmpeg: index of the mirror of the current attempt
    err,              \* FetchFfmpeg: the error downloadFile returned
    dlErr,            \* FetchFfmpeg: dlErr
    isDownloadFailed, \* FetchFfmpeg: isDownloadFailed
    fetchErr,         \* the error FetchFfmpeg is returning
    log,              \* history: the attempts of the current FetchFfmpeg call
    calls,            \* history: Ffmpeg() calls started so far
    did,              \* history: what the current call of each caller has done
    after,            \* history: the paths already returned when the call started
    returned,         \* history: the paths Ffmpeg() has returned successfully
    dlSeqs,           \* history: download sequences run so far
    overlap,          \* history: no call has started after another one returned
    probed,           \* history: the path in `path` passed isValidFfmpegExe in the scan
    cachedProbed,     \* history: the path stored in ffmpegPath had passed it
    platform          \* runtime.GOOS, runtime.GOARCH and the variant computed
                      \* from them, "" until getFfmpegVariant has run

vars == <<env, fs, ffmpegPath, fetchFfmpegLock, crashed, failures, pc, path, ret,
          i, err, dlErr, isDownloadFailed, fetchErr, log, calls, did, after,
          returned, dlSeqs, overlap, probed, cachedProbed, platform>>

shared == <<env, platform, fs, ffmpegPath, fetchFfmpegLock, crashed, failures>>
locals == <<path, ret, i, err, dlErr, isDownloadFailed, fetchErr>>
history == <<log, calls, did, after, returned, dlSeqs, overlap, probed, cachedProbed>>

(* -------------------------- executable locator ------------------------- *)
\* running the file with -version ends without error
Launchable(f) ==
    \/ f.content = "ffmpeg"
    \/ f.content = "rel" /\ env.launchable

isValidFfmpegExe(p) ==
    LET info == fs[p] IN
    /\ info.exists /\ ~info.isDir
    /\ BitAnd(info.mode, Oct(1, 0, 0)) /= 0
    /\ Launchable(info)

\* exec.LookPath's test of one candidate: a regular file with an execute bit
findExecutable(p) ==
    LET d == fs[p] IN d.exists /\ ~d.isDir /\ BitAnd(d.mode, ExecBits) /= 0

RECURSIVE LookPathFrom(_, _)
LookPathFrom(name, k) ==
    IF k > Len(env.PATH) THEN ""
    ELSE IF findExecutable(Join(env.PATH[k], name)) THEN Join(env.PATH[k], name)
    ELSE LookPathFrom(name, k + 1)

LookPath(name) == LookPathFrom(name, 1)

getUserBinDir == UserBinDir

GetFfmpegPath ==
    LET name == getFfmpegName("", GOOS) IN
    IF isValidFfmpegExe(Join(getUserBinDir, name)) THEN Join(getUserBinDir, name)
    ELSE LookPath(name)

(* ------------------------------- Init ---------------------------------- *)
InitUserFiles ==
    { NoFile, RegFile("junk", Oct(6, 4, 4)), RegFile("ffmpeg", Oct(7, 5, 5)), DirEntry }
InitSysFiles == { NoFile, RegFile("junk", Oct(7, 5, 5)), RegFile("ffmpeg", Oct(7, 5, 5)) }

Init ==
    /\ \E P \in {<<SysDir>>, <<UserBinDir, SysDir>>}, l \in BOOLEAN, m \in Manifests,
          n \in {1, NCallers},
          u \in InitUserFiles, s \in InitSysFiles :
           /\ env = [PATH |-> P, launchable |-> l, manifest |-> m, callers |-> n,
                     budget |-> IF n = 1 THEN MaxFailures ELSE MaxConcurrentFailures,
                     cold |-> (u = NoFile /\ s = NoFile)]
           /\ fs = [p \in Paths |-> IF p = UserBinPath THEN u ELSE s]
    /\ ffmpegPath = ""
    /\ fetchFfmpegLock = 0
    /\ crashed = FALSE
    /\ failures = 0
    /\ pc = [c \in Callers |-> "idle"]
    /\ path = [c \in Callers |-> ""]
    /\ ret = [c \in Callers |-> [path |-> "", err |-> "nil"]]
    /\ i = [c \in Callers |-> 0]
    /\ err = [c \in Callers |-> "nil"]
    /\ dlErr = [c \in Callers |-> "nil"]
    /\ isDownloadFailed = [c \in Callers |-> FALSE]
    /\ fetchErr = [c \in Callers |-> "nil"]
    /\ log = <<>>
    /\ calls = 0
    /\ did = [c \in Callers |-> {}]
    /\ after = [c \in Callers |-> {}]
    /\ returned = {}
    /\ dlSeqs = 0
    /\ overlap = TRUE
    /\ probed = [c \in Callers |-> FALSE]
    /\ cachedProbed = FALSE
    /\ platform = [os |-> GOOS, arch |-> GOARCH, variant |-> ""]

(* ------------------------------ Ffmpeg() ------------------------------- *)
\* Ffmpeg returns (p, e): its locals are gone
Done(c, p, e) ==
    /\ pc' = [pc EXCEPT ![c] = "done"]
    /\ ret' = [ret EXCEPT ![c] = [path |-> p, err |-> e]]
    /\ path' = [path EXCEPT ![c] = ""]
    /\ probed' = [probed EXCEPT ![c] = FALSE]
    /\ returned' = IF e = "nil" THEN returned \cup {p} ELSE returned

\* the cache test never succeeds
IsCached_Never(v) == FALSE

\* if ffmpegPath != ""
IsCached(v) == v /= ""

\* Ffmpeg is entered and tests the cache
FfmpegCheckCache(c) ==
    /\ ~crashed
    /\ c <= env.callers
    /\ pc[c] \in {"idle", "done"}
    /\ calls < MaxCalls
    /\ calls' = calls + 1
    /\ did' = [did EXCEPT ![c] = {}]
    /\ after' = [after EXCEPT ![c] = returned]
    /\ overlap' = (overlap /\ \A d \in Callers : pc[d] /= "done")
    /\ IF IsCached(ffmpegPath)
       THEN Done(c, ffmpegPath, "nil")
       ELSE /\ pc' = [pc EXCEPT ![c] = "locate"]
            /\ ret' = [ret EXCEPT ![c] = [path |-> "", err |-> "nil"]]
            /\ UNCHANGED <<path, probed, returned>>
    /\ UNCHANGED <<shared, i, err, dlErr, isDownloadFailed, fetchErr, log, dlSeqs,
                   cachedProbed>>

\* the first GetFfmpegPath of a call
FfmpegLocate(c) ==
    /\ ~crashed
    /\ pc[c] = "locate"
    /\ did' = [did EXCEPT ![c] = @ \cup {"scan"}]
    /\ path' = [path EXCEPT ![c] = GetFfmpegPath]
    /\ probed' = [probed EXCEPT ![c] = GetFfmpegPath /= "" /\ isValidFfmpegExe(GetFfmpegPath)]
    /\ pc' = [pc EXCEPT ![c] = IF GetFfmpegPath /= "" THEN "store" ELSE "release"]
    /\ UNCHANGED <<shared, ret, i, err, dlErr, isDownloadFailed, fetchErr,
                   log, calls, after, returned, dlSeqs, overlap, cachedProbed>>

\* ffmpegPath = path is an unsynchronised store of a two-word string header:
\* a build may make the new length visible before the new data pointer, and a
\* reader then finds a non-empty string that is not the path
FfmpegStoreWord(c) ==
    /\ ~crashed
    /\ pc[c] = "store"
    /\ ffmpegPath \notin {path[c], TornPath}
    /\ ffmpegPath' = TornPath
    /\ cachedProbed' = probed[c]
    /\ UNCHANGED <<env, platform, fs, fetchFfmpegLock, crashed, failures, pc, locals, log, calls,
                   did, after, returned, dlSeqs, overlap, probed>>

\* ffmpegPath = path; return path, nil
FfmpegStore(c) ==
    /\ ~crashed
    /\ pc[c] = "store"
    /\ ffmpegPath' = path[c]
    /\ cachedProbed' = probed[c]
    /\ Done(c, path[c], "nil")
    /\ UNCHANGED <<env, platform, fs, fetchFfmpegLock, crashed, failures, i, err, dlErr,
                   isDownloadFailed, fetchErr, log, calls, did, after, dlSeqs, overlap>>

\* the GetFfmpegPath that follows a successful FetchFfmpeg
FfmpegRelocate(c) ==
    /\ ~crashed
    /\ pc[c] = "relocate"
    /\ did' = [did EXCEPT ![c] = @ \cup {"scan"}]
    /\ IF GetFfmpegPath /= ""
       THEN /\ path' = [path EXCEPT ![c] = GetFfmpegPath]
            /\ probed' = [probed EXCEPT ![c] = isValidFfmpegExe(GetFfmpegPath)]
            /\ pc' = [pc EXCEPT ![c] = "store"]
            /\ UNCHANGED <<ret, returned>>
       ELSE Done(c, "", "errFfmpegNotFound")
    /\ UNCHANGED <<shared, i, err, dlErr, isDownloadFailed, fetchErr,
                   log, calls, after, dlSeqs, overlap, cachedProbed>>

(* ---------------------------- FetchFfmpeg() ---------------------------- *)
\* one more failure may be injected
MayFail == failures < env.budget

\* fetchRelease and MkdirAll: everything FetchFfmpeg does before taking the lock
FetchRelease(c) ==
    /\ ~crashed
    /\ pc[c] = "release"
    /\ did' = [did EXCEPT ![c] = @ \cup {"net"}]
    /\ \/ /\ MayFail                     \* the release index fails or answers non-200
          /\ failures' = failures + 1
          /\ Done(c, "", "releaseErr")
       \/ /\ fetchRelease(env.manifest) = NoAsset
          /\ Done(c, "", "errVariantIncompatible")
          /\ UNCHANGED failures
       \/ /\ fetchRelease(env.manifest) /= NoAsset
          /\ MayFail                     \* MkdirAll fails
          /\ failures' = failures + 1
          /\ Done(c, "", "mkdirErr")
       \/ /\ fetchRelease(env.manifest) /= NoAsset
          /\ pc' = [pc EXCEPT ![c] = "lock"]
          /\ UNCHANGED <<failures, ret, returned, path, probed>>
    /\ UNCHANGED <<env, platform, fs, ffmpegPath, fetchFfmpegLock, crashed, i, err, dlErr,
                   isDownloadFailed, fetchErr, log, calls, after, dlSeqs, overlap, cachedProbed>>

\* the section is entered without waiting for the lock
Lock_NoWait(c) ==
    /\ ~crashed
    /\ pc[c] = "lock"
    /\ fetchFfmpegLock' = c
    /\ i' = [i EXCEPT ![c] = 1]
    /\ isDownloadFailed' = [isDownloadFailed EXCEPT ![c] = TRUE]
    /\ dlErr' = [dlErr EXCEPT ![c] = "nil"]
    /\ log' = <<>>
    /\ dlSeqs' = dlSeqs + 1
    /\ pc' = [pc EXCEPT ![c] = "download"]
    /\ UNCHANGED <<env, platform, fs, ffmpegPath, crashed, failures, path, ret, err, fetchErr,
                   calls, did, after, returned, overlap, probed, cachedProbed>>

\* fetchFfmpegLock.Lock() and the initialisation of the loop
Lock(c) ==
    /\ ~crashed
    /\ pc[c] = "lock"
    /\ fetchFfmpegLock = 0
    /\ fetchFfmpegLock' = c
    /\ i' = [i EXCEPT ![c] = 1]
    /\ isDownloadFailed' = [isDownloadFailed EXCEPT ![c] = TRUE]
    /\ dlErr' = [dlErr EXCEPT ![c] = "nil"]
    /\ log' = <<>>
    /\ dlSeqs' = dlSeqs + 1
    /\ pc' = [pc EXCEPT ![c] = "download"]
    /\ UNCHANGED <<env, platform, fs, ffmpegPath, crashed, failures, path, ret, err, fetchErr,
                   calls, did, after, returned, overlap, probed, cachedProbed>>

\* os.Create: a new empty file, or the existing file truncated with its mode kept
Create(f) ==
    IF f.exists THEN [f EXCEPT !.content = "empty"] ELSE RegFile("empty", NewFileMode)

\* downloadFile up to os.Create: the request, the status test, the file opened
DownloadRequest(c) ==
    /\ ~crashed
    /\ pc[c] = "download"
    /\ \/ /\ MayFail                     \* httpClient.Do fails
          /\ failures' = failures + 1
          /\ err' = [err EXCEPT ![c] = "connErr"]
          /\ pc' = [pc EXCEPT ![c] = "failed"]
          /\ UNCHANGED fs
       \/ /\ MayFail                     \* the status is not 200
          /\ failures' = failures + 1
          /\ err' = [err EXCEPT ![c] = "errDownloadFailed"]
          /\ pc' = [pc EXCEPT ![c] = "failed"]
          /\ UNCHANGED fs
       \/ /\ fs[UserBinPath].isDir       \* os.Create fails on a directory
          /\ err' = [err EXCEPT ![c] = "createErr"]
          /\ pc' = [pc EXCEPT ![c] = "failed"]
          /\ UNCHANGED <<fs, failures>>
       \/ /\ ~fs[UserBinPath].isDir
          /\ fs' = [fs EXCEPT ![UserBinPath] = Create(@)]
          /\ pc' = [pc EXCEPT ![c] = "copy"]
          /\ UNCHANGED <<err, failures>>
    /\ did' = [did EXCEPT ![c] = @ \cup {"net"} \cup
                  (IF pc'[c] = "copy" THEN {"write"} ELSE {})]
    /\ UNCHANGED <<env, platform, ffmpegPath, fetchFfmpegLock, crashed, path, ret, i, dlErr,
                   isDownloadFailed, fetchErr, log, calls, after, returned, dlSeqs,
                   overlap, probed, cachedProbed>>

\* io.Copy of the body into the file and the return of downloadFile
DownloadCopy(c) ==
    /\ ~crashed
    /\ pc[c] = "copy"
    /\ \/ /\ MayFail                     \* the body breaks off
          /\ failures' = failures + 1
          /\ fs' = [fs EXCEPT ![UserBinPath].content = "part"]
          /\ err' = [err EXCEPT ![c] = "copyErr"]
          /\ pc' = [pc EXCEPT ![c] = "failed"]
          /\ UNCHANGED <<isDownloadFailed, log>>
       \/ /\ \E b \in {"rel", "bad"} :
               /\ b = "bad" => MayFail   \* the mirror serves other bytes
               /\ failures' = IF b = "bad" THEN failures + 1 ELSE failures
               /\ fs' = [fs EXCEPT ![UserBinPath].content = b]
               /\ log' = Append(log, [mirror |-> i[c], err |-> "nil", bytes |-> b])
          /\ err' = [err EXCEPT ![c] = "nil"]
          /\ isDownloadFailed' = [isDownloadFailed EXCEPT ![c] = FALSE]
          /\ pc' = [pc EXCEPT ![c] = "verify"]
    /\ UNCHANGED <<env, platform, ffmpegPath, fetchFfmpegLock, crashed, path, ret, i, dlErr,
                   fetchErr, calls, did, after, returned, dlSeqs, overlap, probed, cachedProbed>>

\* http.Client.Timeout of httpClient; zero means no timeout
ClientTimeout == 0

\* the remote takes the request and never answers, or stops sending the body:
\* httpClient.Do or io.Copy blocks, and nothing ends the wait when no timeout is
\* set (with one set the call fails, as in FetchRelease and downloadFile above)
NoResponse(c) ==
    /\ ~crashed
    /\ pc[c] \in {"release", "download", "copy"}
    /\ MayFail
    /\ ClientTimeout = 0
    /\ failures' = failures + 1
    /\ pc' = [pc EXCEPT ![c] = "hung"]
    /\ did' = [did EXCEPT ![c] = @ \cup {"net"}]
    /\ UNCHANGED <<env, platform, fs, ffmpegPath, fetchFfmpegLock, crashed, locals, log, calls,
                   after, returned, dlSeqs, overlap, probed, cachedProbed>>

\* the file is left in place
RemoveAfterFailedAttempt_Kept(f) == f

\* os.Remove(path) after a failed attempt
RemoveAfterFailedAttempt(f) == NoFile

\* a mirror is skipped
NextProxy_Skip(k) == k + 2

\* the mirror tried after mirror k
NextProxy(k) == k + 1

\* the else branch of the loop, and the test that follows the loop
DownloadFailed(c) ==
    /\ ~crashed
    /\ pc[c] = "failed"
    /\ dlErr' = [dlErr EXCEPT ![c] = err[c]]
    /\ fs' = [fs EXCEPT ![UserBinPath] = RemoveAfterFailedAttempt(@)]
    /\ log' = Append(log, [mirror |-> i[c], err |-> err[c], bytes |-> ""])
    /\ did' = [did EXCEPT ![c] = @ \cup {"write"}]
    /\ IF NextProxy(i[c]) <= Len(Proxies)
       THEN /\ i' = [i EXCEPT ![c] = NextProxy(i[c])]
            /\ pc' = [pc EXCEPT ![c] = "download"]
            /\ UNCHANGED fetchErr
       ELSE /\ isDownloadFailed[c]
            /\ fetchErr' = [fetchErr EXCEPT ![c] = err[c]]
            /\ pc' = [pc EXCEPT ![c] = "unlock"]
            /\ UNCHANGED i
    /\ UNCHANGED <<env, platform, ffmpegPath, fetchFfmpegLock, crashed, failures, path, ret, err,
                   isDownloadFailed, calls, after, returned, dlSeqs, overlap, probed, cachedProbed>>

\* asset.Digest[7:]
StripPrefix(digest) == SubSeq(digest, DigestOffset + 1, Len(digest))

\* the mismatching file is left in place
RemoveAfterMismatch_Kept(f) == f

\* os.Remove(path) after a digest mismatch
RemoveAfterMismatch(f) == NoFile

\* the error returned for a digest mismatch
MismatchError == "errFileCorrupted"

\* verifySha256 and the branches on its result
Verify(c) ==
    LET digest == fetchRelease(env.manifest).Digest IN
    /\ ~crashed
    /\ pc[c] = "verify"
    /\ \/ /\ Len(digest) < DigestOffset  \* the slice panics: Unlock runs, the process dies
          /\ crashed' = TRUE
          /\ fetchFfmpegLock' = 0
          /\ pc' = [pc EXCEPT ![c] = "panic"]
          /\ UNCHANGED <<fs, failures, fetchErr, did>>
       \/ /\ Len(digest) >= DigestOffset
          /\ MayFail                     \* os.Open or the read fails
          /\ failures' = failures + 1
          /\ fetchErr' = [fetchErr EXCEPT ![c] = "openErr"]
          /\ pc' = [pc EXCEPT ![c] = "unlock"]
          /\ UNCHANGED <<fs, crashed, fetchFfmpegLock, did>>
       \/ /\ Len(digest) >= DigestOffset
          /\ EqualFold(Sha256Hex(fs[UserBinPath].content), StripPrefix(digest))
          /\ pc' = [pc EXCEPT ![c] = "chmod"]
          /\ UNCHANGED <<fs, crashed, fetchFfmpegLock, failures, fetchErr, did>>
       \/ /\ Len(digest) >= DigestOffset
          /\ ~EqualFold(Sha256Hex(fs[UserBinPath].content), StripPrefix(digest))
          /\ fs' = [fs EXCEPT ![UserBinPath] = RemoveAfterMismatch(@)]
          /\ did' = [did EXCEPT ![c] = @ \cup {"write"}]
          /\ fetchErr' = [fetchErr EXCEPT ![c] = MismatchError]
          /\ pc' = [pc EXCEPT ![c] = "unlock"]
          /\ UNCHANGED <<crashed, fetchFfmpegLock, failures>>
    /\ UNCHANGED <<env, platform, ffmpegPath, path, ret, i, err, dlErr, isDownloadFailed,
                   log, calls, after, returned, dlSeqs, overlap, probed, cachedProbed>>

\* execute permission is added for the owner only
AddExec_Owner(mode) == BitOr(mode, Oct(1, 0, 0))

\* info.Mode()|0111
AddExec(mode) == BitOr(mode, ExecBits)

\* chmodExec and the return that follows it
Chmod(c) ==
    /\ ~crashed
    /\ pc[c] = "chmod"
    /\ \/ /\ MayFail                     \* os.Stat or os.Chmod fails
          /\ failures' = failures + 1
          /\ fetchErr' = [fetchErr EXCEPT ![c] = "chmodErr"]
          /\ UNCHANGED <<fs, did>>
       \/ /\ fs' = [fs EXCEPT ![UserBinPath].mode = AddExec(@)]
          /\ did' = [did EXCEPT ![c] = @ \cup {"write"}]
          /\ fetchErr' = [fetchErr EXCEPT ![c] = "nil"]
          /\ UNCHANGED failures
    /\ pc' = [pc EXCEPT ![c] = "unlock"]
    /\ UNCHANGED <<env, platform, ffmpegPath, fetchFfmpegLock, crashed, path, ret, i, err, dlErr,
                   isDownloadFailed, log, calls, after, returned, dlSeqs, overlap, probed, cachedProbed>>

\* the deferred Unlock, FetchFfmpeg's return and Ffmpeg's test of its error
Unlock(c) ==
    /\ ~crashed
    /\ pc[c] = "unlock"
    /\ fetchFfmpegLock' = 0
    /\ i' = [i EXCEPT ![c] = 0]
    /\ err' = [err EXCEPT ![c] = "nil"]
    /\ dlErr' = [dlErr EXCEPT ![c] = "nil"]
    /\ isDownloadFailed' = [isDownloadFailed EXCEPT ![c] = FALSE]
    /\ fetchErr' = [fetchErr EXCEPT ![c] = "nil"]
    /\ log' = <<>>
    /\ IF fetchErr[c] /= "nil"
       THEN Done(c, "", fetchErr[c])
       ELSE /\ pc' = [pc EXCEPT ![c] = "relocate"]
            /\ UNCHANGED <<ret, returned, path, probed>>
    /\ did' = [did EXCEPT ![c] = IF fetchErr[c] = "nil" THEN @ \cup {"fetched"} ELSE @]
    /\ UNCHANGED <<env, platform, fs, ffmpegPath, crashed, failures, calls, after,
                   dlSeqs, overlap, cachedProbed>>

(* ---------------------------- specification ---------------------------- *)
Next ==
    \E c \in Callers :
        \/ FfmpegCheckCache(c)
        \/ FfmpegLocate(c)
        \/ FfmpegStore(c)
        \/ FfmpegStoreWord(c)
        \/ FfmpegRelocate(c)
        \/ FetchRelease(c)
        \/ Lock(c)
        \/ DownloadRequest(c)
        \/ DownloadCopy(c)
        \/ NoResponse(c)
        \/ DownloadFailed(c)
        \/ Verify(c)
        \/ Chmod(c)
        \/ Unlock(c)

Spec == Init /\ [][Next]_vars

(* ------------------ getFfmpegVariant on every platform ----------------- *)
\* values of runtime.GOOS and runtime.GOARCH a build of the package may have
GoosValues ==
    {"linux", "windows", "darwin", "android", "freebsd", "openbsd", "netbsd", "solaris"}
GoarchValues ==
    {"amd64", "386", "arm", "arm64", "loong64", "riscv64", "mips", "mipsle",
     "mips64", "mips64le", "ppc64", "ppc64le", "s390x", "wasm"}

\* the package built for some platform, nothing called yet
VariantInit ==
    /\ platform \in [os : GoosValues, arch : GoarchValues, variant : {""}]
    /\ env = [PATH |-> <<>>, launchable |-> FALSE, manifest |-> <<>>, callers |-> 1,
              budget |-> 0, cold |-> TRUE]
    /\ fs = [p \in Paths |-> NoFile]
    /\ ffmpegPath = ""
    /\ fetchFfmpegLock = 0
    /\ crashed = FALSE
    /\ failures = 0
    /\ pc = [c \in Callers |-> "idle"]
    /\ path = [c \in Callers |-> ""]
    /\ ret = [c \in Callers |-> [path |-> "", err |-> "nil"]]
    /\ i = [c \in Callers |-> 0]
    /\ err = [c \in Callers |-> "nil"]
    /\ dlErr = [c \in Callers |-> "nil"]
    /\ isDownloadFailed = [c \in Callers |-> FALSE]
    /\ fetchErr = [c \in Callers |-> "nil"]
    /\ log = <<>>
    /\ calls = 0
    /\ did = [c \in Callers |-> {}]
    /\ after = [c \in Callers |-> {}]
    /\ returned = {}
    /\ dlSeqs = 0
    /\ overlap = TRUE
    /\ probed = [c \in Callers |-> FALSE]
    /\ cachedProbed = FALSE

\* a call of getFfmpegVariant()
GetFfmpegVariantCall ==
    /\ platform.variant = ""
    /\ platform' = [platform EXCEPT !.variant = getFfmpegVariant(platform.os, platform.arch)]
    /\ UNCHANGED <<env, fs, ffmpegPath, fetchFfmpegLock, crashed, failures, pc,
                   locals, history>>

VariantNext == GetFfmpegVariantCall

VariantSpec == VariantInit /\ [][VariantNext]_vars

(* ----------------------------- properties ------------------------------ *)
\* the manifest names the platform's asset with the digest of the release binary
GoodManifest ==
    LET a == fetchRelease(env.manifest) IN
    /\ a /= NoAsset
    /\ Len(a.Digest) >= DigestOffset
    /\ EqualFold(RelHex, StripPrefix(a.Digest))

\* every caller has made one call, all of them found the cache empty and went on
\* to the locator, none started after another had returned, all have returned,
\* and neither the network nor the file system failed
ColdConcurrentRun ==
    /\ env.cold /\ env.callers = NCallers /\ NCallers > 1
    /\ GoodManifest /\ failures = 0
    /\ overlap /\ calls = NCallers
    /\ \A c \in Callers : pc[c] = "done" /\ "scan" \in did[c]

\* C1: N concurrent calls against a cold cache, with the release index and the
\* mirrors answering well, run exactly one download sequence in total.
C1_OneDownloadSequence == ColdConcurrentRun => dlSeqs = 1

\* C2: N concurrent calls against a cold cache, served a valid launchable binary,
\* all return without error and all return the same path.
C2_AllReturnSamePath ==
    (ColdConcurrentRun /\ env.launchable) =>
        \A c \in Callers : ret[c].err = "nil" /\ ret[c].path = ret[1].path

C4_CachedPathWasProbed == ffmpegPath /= "" => cachedProbed

\* the candidates GetFfmpegPath looks at
Candidates ==
    { Join(getUserBinDir, getFfmpegName("", GOOS)) } \cup
    { Join(env.PATH[k], getFfmpegName("", GOOS)) : k \in 1..Len(env.PATH) }

\* C5: GetFfmpegPath returns a path only if that path passes the validity check,
\* and returns the empty string when no candidate passes it.
C5_LocatorReturnsOnlyValid ==
    \A c \in Callers :
        pc[c] \in {"locate", "relocate"} =>
            /\ GetFfmpegPath /= "" => isValidFfmpegExe(GetFfmpegPath)
            /\ (\A p \in Candidates : ~isValidFfmpegExe(p)) => GetFfmpegPath = ""

\* C6: when FetchFfmpeg succeeds and the binary it installed does not launch,
\* Ffmpeg returns errFfmpegNotFound, not a path, and the cache stays empty.
C6_NotLaunchableIsNotFound ==
    \A c \in Callers :
        ("fetched" \in did[c] /\ pc[c] = "done" /\ ~env.launchable /\ env.cold) =>
            /\ ret[c] = [path |-> "", err |-> "errFfmpegNotFound"]
            /\ ffmpegPath = ""

\* the bytes b hash to the digest the manifest gives
DigestMatches(b) ==
    LET d == fetchRelease(env.manifest).Digest IN
    Len(d) >= DigestOffset /\ EqualFold(Sha256Hex(b), StripPrefix(d))

\* C7: the corruption error is returned only after every mirror has been tried.
C7_CorruptionTriesNextMirror ==
    \A c \in Callers :
        (pc[c] = "unlock" /\ fetchErr[c] = "errFileCorrupted" /\ GoodManifest) =>
            (Len(log) = Len(Proxies) /\ log[Len(log)].mirror = Len(Proxies))

InFetch(c) == pc[c] \in {"download", "copy", "failed", "verify", "chmod", "unlock"}

\* C8: the mirrors are tried in list order, each at most once, up to the first
\* success; after a non-200 from mirror 1 nothing is at the destination, and if
\* mirror 2 then delivers bytes that verify, the call succeeds with those bytes
\* there (unless the chmod itself fails); when all fail, the last error is returned.
C8_MirrorsInOrder ==
    \A c \in Callers : InFetch(c) =>
        /\ Proxies[1] /= "" /\ Proxies[2] /= "" /\ Proxies[3] = "" /\ Len(Proxies) = 3
        /\ Len(log) <= Len(Proxies)
        /\ \A k \in 1..Len(log) : log[k].mirror = k
        /\ \A k \in 1..(Len(log) - 1) : log[k].err /= "nil"
        /\ pc[c] \in {"download", "copy"} => i[c] = Len(log) + 1
        /\ pc[c] \in {"verify", "chmod"} => (log /= <<>> /\ log[Len(log)].err = "nil")
        /\ (pc[c] = "download" /\ i[c] = 2 /\ log[1].err = "errDownloadFailed")
               => ~fs[UserBinPath].exists
        /\ (pc[c] = "unlock" /\ Len(log) = 2 /\ log[1].err = "errDownloadFailed"
                /\ log[2].err = "nil" /\ DigestMatches(log[2].bytes)
                /\ fetchErr[c] \notin {"openErr", "chmodErr"})
               => /\ fetchErr[c] = "nil"
                  /\ fs[UserBinPath].exists
                  /\ fs[UserBinPath].content = log[2].bytes
        /\ (pc[c] = "unlock" /\ log[Len(log)].err /= "nil")
               => (Len(log) = Len(Proxies) /\ fetchErr[c] = log[Len(log)].err)

C8_Witness ==
    \E c \in Callers :
        /\ pc[c] = "unlock" /\ Len(log) = 2 /\ log[1].err = "errDownloadFailed"
        /\ log[2].err = "nil" /\ fetchErr[c] = "nil"
        /\ fs[UserBinPath].content = "rel"

\* C9: when the bytes written do not hash to the expected digest, FetchFfmpeg
\* removes the file and returns errFileCorrupted, an error it returns for nothing else.
C9_MismatchRemovedAndReported ==
    \A c \in Callers : pc[c] = "unlock" =>
        /\ (log[Len(log)].err = "nil" /\ ~DigestMatches(log[Len(log)].bytes)
                /\ fetchErr[c] /= "openErr")
               => (fetchErr[c] = "errFileCorrupted" /\ ~fs[UserBinPath].exists)
        /\ fetchErr[c] = "errFileCorrupted"
               => (log[Len(log)].err = "nil" /\ ~DigestMatches(log[Len(log)].bytes))
        /\ MismatchError \notin
               {"nil", "connErr", "errDownloadFailed", "copyErr", "createErr",
                "openErr", "chmodErr", "errVariantIncompatible", "errFfmpegNotFound"}

C9_Witness ==
    \E c \in Callers :
        /\ pc[c] = "unlock" /\ fetchErr[c] = "errFileCorrupted"
        /\ log[Len(log)].bytes = "bad" /\ ~fs[UserBinPath].exists

DownloadErrors == {"connErr", "errDownloadFailed", "copyErr", "createErr"}

\* C10: after a failed download attempt the destination is gone before the next
\* mirror is tried and before the call returns, so a failed call leaves no
\* partly written file behind.
C10_FailedAttemptLeavesNoFile ==
    \A c \in Callers :
        /\ (pc[c] = "download" /\ i[c] > 1) => ~fs[UserBinPath].exists
        /\ (pc[c] = "unlock" /\ fetchErr[c] \in DownloadErrors) => ~fs[UserBinPath].exists
        /\ (pc[c] = "done" /\ ret[c].err \in DownloadErrors /\ env.callers = 1)
               => ~fs[UserBinPath].exists
        /\ fetchFfmpegLock = 0 => fs[UserBinPath].content \notin {"empty", "part"}

C10_Witness ==
    \E c \in Callers :
        /\ pc[c] = "download" /\ i[c] = 2 /\ log[1].err = "copyErr"
        /\ ~fs[UserBinPath].exists

\* the manifest names the platform's asset, and its digest is absent, shorter
\* than "sha256:" or does not start with it
MalformedDigest ==
    LET a == fetchRelease(env.manifest) IN
    /\ a /= NoAsset
    /\ \/ Len(a.Digest) < Len(Sha256Prefix)
       \/ SubSeq(a.Digest, 1, Len(Sha256Prefix)) /= Sha256Prefix

\* C11: with an absent or malformed digest, a download that delivered its bytes
\* ends in the integrity error returned as an error value with the file removed,
\* and the process does not crash.
C11_MalformedDigestIsIntegrityError ==
    \A c \in Callers :
        (MalformedDigest /\ pc[c] \in {"unlock", "panic"}
             /\ log /= <<>> /\ log[Len(log)].err = "nil" /\ fetchErr[c] /= "openErr")
            => /\ ~crashed
               /\ pc[c] = "unlock"
               /\ fetchErr[c] = MismatchError
               /\ ~fs[UserBinPath].exists

\* no asset of the manifest carries the platform-qualified name
NoMatchingAsset == \A k \in 1..Len(env.manifest) : env.manifest[k].Name /= vName

\* C12: when the manifest has no asset named exactly the platform-qualified name,
\* a FetchFfmpeg that got the manifest returns errVariantIncompatible in the same
\* step, and no step takes the lock, starts a download request, or creates,
\* modifies or removes a file.
C12_NoAssetIsVariantIncompatible ==
    [][NoMatchingAsset =>
          /\ fs' = fs
          /\ dlSeqs' = dlSeqs
          /\ \A c \in Callers :
               /\ pc'[c] \notin {"lock", "download", "copy", "failed", "verify",
                                 "chmod", "unlock", "relocate", "panic"}
               /\ "write" \notin did'[c]
               /\ (pc[c] = "release" /\ pc'[c] \notin {"release", "hung"}
                     /\ ret'[c].err /= "releaseErr")
                      => /\ pc'[c] = "done"
                         /\ ret'[c] = [path |-> "", err |-> "errVariantIncompatible"]
                         /\ did'[c] = did[c] \cup {"net"}]_vars

C12_Witness ==
    \E c \in Callers :
        /\ NoMatchingAsset /\ pc[c] = "done"
        /\ ret[c] = [path |-> "", err |-> "errVariantIncompatible"]
        /\ "net" \in did[c] /\ dlSeqs = 0

\* C13: every network call is bounded by a timeout, so no caller is left waiting
\* without end for a remote that never responds, whether before the lock is taken
\* or while holding it.
C13_NetworkCallsTimeOut == \A c \in Callers : pc[c] /= "hung"

\* C14: when FetchFfmpeg succeeds, the file exists, its SHA-256 equals the expected
\* digest compared without regard to case, and the chmod that preceded the return
\* added execute permission for user, group and other to the mode the file had and
\* changed nothing else.
C14_SuccessLeavesVerifiedExecutable ==
    [][\A c \in Callers :
          /\ (pc[c] = "unlock" /\ fetchErr[c] = "nil") =>
                /\ fs[UserBinPath].exists /\ ~fs[UserBinPath].isDir
                /\ DigestMatches(fs[UserBinPath].content)
                /\ BitAnd(fs[UserBinPath].mode, Oct(1, 1, 1)) = Oct(1, 1, 1)
          /\ (pc[c] = "chmod" /\ pc'[c] = "unlock" /\ fetchErr'[c] = "nil") =>
                fs' = [fs EXCEPT ![UserBinPath].mode = BitOr(@, Oct(1, 1, 1))]]_vars

C14_Witness ==
    \E c \in Callers :
        /\ pc[c] = "unlock" /\ fetchErr[c] = "nil"
        /\ fs[UserBinPath].mode = Oct(7, 5, 5)
        /\ fs[UserBinPath].content = "rel"
        /\ fetchRelease(env.manifest).Digest /= Sha256Prefix \o RelHex

\* C15: getFfmpegVariant returns the operating system, an underscore and the
\* alias of the architecture: amd64 -> x86_64, 386 -> i686, arm -> armhf,
\* arm64 -> aarch64, loong64 -> loongarch64, every other architecture unchanged;
\* it has a result for every platform.
C15_VariantIsOsUnderscoreAlias ==
    platform.variant /= "" =>
        /\ platform.arch = "amd64"   => platform.variant = platform.os \o "_x86_64"
        /\ platform.arch = "386"     => platform.variant = platform.os \o "_i686"
        /\ platform.arch = "arm"     => platform.variant = platform.os \o "_armhf"
        /\ platform.arch = "arm64"   => platform.variant = platform.os \o "_aarch64"
        /\ platform.arch = "loong64" => platform.variant = platform.os \o "_loongarch64"
        /\ platform.arch \notin {"amd64", "386", "arm", "arm64", "loong64"}
               => platform.variant = platform.os \o "_" \o platform.arch

C15_Witness ==
    /\ platform.os = "windows" /\ platform.arch = "loong64"
    /\ platform.variant = "windows_loongarch64"

\* caller c is between Lock() and the deferred Unlock()
InSection(c) ==
    \/ pc[c] \in {"download", "copy", "failed", "verify", "chmod", "unlock"}
    \/ pc[c] = "hung" /\ i[c] > 0

\* C16: at most one caller is inside the download+verify+chmod section, the caller
\* inside it holds the lock, and a caller that has left the section, by success,
\* by error or by a panic, does not hold it: when nobody is inside, the lock is
\* free for a waiting caller to take.
C16_SectionIsExclusive ==
    /\ Cardinality({c \in Callers : InSection(c)}) <= 1
    /\ \A c \in Callers : InSection(c) => fetchFfmpegLock = c
    /\ \A c \in Callers : ~InSection(c) => fetchFfmpegLock /= c
    /\ \A c \in Callers :
          (pc[c] = "lock" /\ ~crashed /\ \A d \in Callers : ~InSection(d))
              => ENABLED Lock(c)

C16_Witness ==
    \E c, d \in Callers :
        /\ pc[c] = "copy" /\ fetchFfmpegLock = c
        /\ pc[d] = "lock"

\* the directory of the running executable: the program is installed in the
\* system directory
ExeDir == SysDir

\* C17: GetFfmpegPath looks in the directory of the running executable first: a
\* valid binary there is returned in preference to one in the per-user binary
\* directory or on the search path.
C17_ExecutableDirFirst ==
    \A c \in Callers :
        (pc[c] \in {"locate", "relocate"}
             /\ isValidFfmpegExe(Join(ExeDir, getFfmpegName("", GOOS))))
            => GetFfmpegPath = Join(ExeDir, getFfmpegName("", GOOS))

\* C18: once the cached path is non-empty, no step of any call changes it.
C18_CachedPathNeverChanges ==
    [][ffmpegPath /= "" => ffmpegPath' = ffmpegPath]_vars

\* C19: once a call has cached and returned the path of the downloaded binary, no
\* step of another call truncates, overwrites or removes the file at that path.
C19_ReturnedBinaryIsLeftAlone ==
    [][(ffmpegPath = UserBinPath /\ UserBinPath \in returned /\ dlSeqs > 0) =>
          /\ fs'[UserBinPath].exists = fs[UserBinPath].exists
          /\ fs'[UserBinPath].content = fs[UserBinPath].content]_vars

\* C20: when FetchFfmpeg returns, with or without an error, a file this call wrote
\* to the destination is still there only if its content passed the digest
\* verification.
C20_OnlyVerifiedFileIsLeft ==
    \A c \in Callers :
        (pc[c] = "unlock" /\ GoodManifest /\ fs[UserBinPath].exists)
            => /\ fetchErr[c] /= "openErr"
               /\ DigestMatches(fs[UserBinPath].content)
====
